---- MODULE Spec2Model ----
(***************************************************************************)
(* A model of launchbox.py: the command enumerator (get_path,              *)
(* get_commands), the tab Completer and the two front-ends that drive it.  *)
(*                                                                         *)
(* A Python str is a sequence of one-character strings; None is the empty  *)
(* tuple and a present value v is the one-element tuple <<v>>.             *)
(***************************************************************************)
EXTENDS Integers, Sequences, FiniteSets, TLC

VARIABLES
    \* ---- the environment the program reads -------------------------------
    environ,      \* os.environ.get('SHELL'): None or <<shell>>
    shellFile,    \* shell path -> is it a regular executable file
    echoPath,     \* shell path -> the text it prints for 'echo $PATH'
    dirKind,      \* directory name -> "missing" | "file" | "dir" | "noread"
    entries,      \* directory name -> entry name -> kind of the entry
    \* ---- module state ----------------------------------------------------
    SHELL,        \* the module global SHELL
    \* ---- Completer -------------------------------------------------------
    commands,     \* self.commands: None or <<list of names>>
    current,      \* self.current
    text,         \* self._text
    \* ---- what the last call did (observation only) -----------------------
    op,           \* name of the last operation
    ret,          \* its result: [raised |-> BOOLEAN, value |-> ...]
    enumerated,   \* did it call get_commands
    pathShells,   \* the shells get_path has invoked so far
    arg,          \* the argument of the last call
    changed,      \* did it change the stored prefix
    snapshot,     \* what get_commands returned when it last returned
    shown,        \* the last element next()/prev() returned for this prefix
    cycled,       \* was next()/prev() called since the prefix last changed
    nexts,        \* next() calls and nothing else since the prefix last changed
    back,         \* the states after the two calls before the last one, newest first
    \* ---- the launcher ----------------------------------------------------
    pc,           \* "idle" | "main" | "loop" | "exit"
    args,         \* the command line: [shell |-> None or <<shell>>, gtk2 |-> BOOLEAN]
    frontend,     \* "none" | "tk" | "gtk2"
    entry,        \* the text in the entry widget
    status,       \* what main returned: None or <<"Shell not found", shell>>
    submitted,    \* the run_command calls: <<[shell, command]>>
    down,         \* Gtk: the keys pressed and not yet released
    event,        \* the last key event handled
    displayed     \* does the entry show a completion the user has not edited since

vars == <<environ, shellFile, echoPath, dirKind, entries, SHELL,
          commands, current, text, op, ret, enumerated, pathShells, arg, changed,
          snapshot, shown, cycled, nexts, back,
          pc, args, frontend, entry, status, submitted, down, event, displayed>>

envVars == <<environ, shellFile, echoPath, dirKind>>
completerVars == <<commands, current, text>>
callVars == <<op, ret, enumerated, pathShells, arg, changed, snapshot, shown,
              cycled, nexts, back>>
appVars == <<pc, args, frontend, entry, status, submitted, down, event, displayed>>

-----------------------------------------------------------------------------
(* Bounds of the model *)

MaxPath == 2      \* longest search path
MaxLen == 1       \* longest text handed to set_text
MaxCalls == 4     \* cap of the nexts counter
MaxEntry == 2     \* longest text typed into the entry
MaxDown == 1      \* most keys held down at once

-----------------------------------------------------------------------------
(* Python values *)

None == <<>>
Some(v) == <<v>>
Get(o) == o[1]

Returned(v) == [raised |-> FALSE, value |-> v]
Raised == [raised |-> TRUE, value |-> None]
NoCall == [raised |-> FALSE, value |-> None]

Chars == {"a", "b"}

Ord(c) == CASE c = "a" -> 97 [] c = "b" -> 98 [] c = " " -> 32 [] OTHER -> 0

Strings(n) == UNION {[1..k -> Chars] : k \in 0..n}

\* str.startswith
startswith(s, p) == Len(p) <= Len(s) /\ SubSeq(s, 1, Len(p)) = p

\* str < str: code-point lexicographic order, as list.sort uses it
RECURSIVE StrLess(_, _)
StrLess(s, t) ==
    IF t = <<>> THEN FALSE
    ELSE IF s = <<>> THEN TRUE
    ELSE IF Head(s) # Head(t) THEN Ord(Head(s)) < Ord(Head(t))
    ELSE StrLess(Tail(s), Tail(t))

\* list(set).sort(): the elements of S in ascending order
RECURSIVE sort(_)
sort(S) ==
    IF S = {} THEN <<>>
    ELSE LET m == CHOOSE x \in S : \A y \in S \ {x} : StrLess(x, y)
         IN <<m>> \o sort(S \ {m})

\* list(set) left unsorted: the elements in some order that need not ascend
RECURSIVE unsorted(_)
unsorted(S) ==
    IF S = {} THEN <<>>
    ELSE LET m == CHOOSE x \in S : \A y \in S \ {x} : StrLess(y, x)
         IN <<m>> \o unsorted(S \ {m})

Range(f) == {f[i] : i \in DOMAIN f}

-----------------------------------------------------------------------------
(* The file system *)

Shells == {"/bin/sh", "/bin/bash", "/bin/zsh", "/bin/nosh"}
DEFAULT_SHELL == "/bin/sh"

\* what a search path may name; "" is what an empty answer splits into
PathNames == {"/bin", "~/bin", ""}
DirNames == {"/bin", "/home/bin", ""}
DirKinds == {"missing", "file", "dir", "noread"}

\* the command names a directory may hold
Names == {<<"a">>, <<"a", "b">>, <<"b">>}
EntryKinds == {"none", "exec", "plain", "dir", "gone"}

expanduser(d) == IF d = "~/bin" THEN "/home/bin" ELSE d

\* os.path.isdir(dirname)
isdir(d) == dirKind[d] \in {"dir", "noread"}

\* os.listdir(dirname) raises OSError when the directory cannot be read (or
\* was removed after the isdir test)
listdirRaises(d) == dirKind[d] = "noread"
listdir(d) == {n \in Names : entries[d][n] # "none"}

\* os.path.isdir(filename), os.access(filename, os.X_OK); both False for an
\* entry that vanished after the listing
entryIsdir(d, n) == entries[d][n] = "dir"
access(d, n) == entries[d][n] \in {"exec", "dir"}

\* os.popen(...).read().strip().split(':'), each name expanded; a shell that
\* cannot be run prints nothing, and ''.split(':') is ['']
get_path(shell) ==
    IF shellFile[shell]
    THEN [i \in DOMAIN echoPath[shell] |-> expanduser(echoPath[shell][i])]
    ELSE <<"">>

\* the body of the two loops for one directory
scanDir(d) == {n \in listdir(d) : ~entryIsdir(d, n) /\ access(d, n)}

scanned(path) == UNION {scanDir(path[i]) : i \in {j \in DOMAIN path : isdir(path[j])}}

get_commandsUnsorted(shell) ==
    LET path == get_path(shell)
    IN  IF \E i \in DOMAIN path : isdir(path[i]) /\ listdirRaises(path[i])
        THEN Raised
        ELSE Returned(unsorted(scanned(path)))

get_commands(shell) ==
    LET path == get_path(shell)
    IN  IF \E i \in DOMAIN path : isdir(path[i]) /\ listdirRaises(path[i])
        THEN Raised
        ELSE Returned(sort(scanned(path)))

-----------------------------------------------------------------------------
(* class Completer *)

\* the list comprehension of _cycle
matchingAll(cmds, t) == cmds
matching(cmds, t) == SelectSeq(cmds, LAMBDA c : startswith(c, t))

\* self.current += step; self.current %= len(self.commands)
advanceNoWrap(cur, step, n) ==
    IF cur + step >= n THEN n - 1 ELSE IF cur + step < 0 THEN 0 ELSE cur + step
advance(cur, step, n) == (cur + step) % n

\* what _cycle returns for an empty list
fallbackBlank(t) == <<>>
fallback(t) == t

\* the fields after set_text(t)
set_textAlways(t) == [commands |-> None, current |-> -1, text |-> t]
set_text(t) ==
    IF t # text
    THEN [commands |-> None, current |-> -1, text |-> t]
    ELSE [commands |-> commands, current |-> current, text |-> text]

\* the fields and the result after _cycle(step)
_cycle(step) ==
    LET stale == commands = None
        got == IF stale THEN get_commands(SHELL) ELSE Returned(<<>>)
    IN  IF got.raised
        THEN [commands |-> commands, current |-> current, ret |-> Raised,
              enumerated |-> TRUE]
        ELSE LET cmds == IF stale THEN matching(got.value, text) ELSE Get(commands)
                 cur == IF stale THEN -1 ELSE current
             IN  IF Len(cmds) = 0
                 THEN [commands |-> Some(cmds), current |-> cur,
                       ret |-> Returned(fallback(text)), enumerated |-> stale]
                 ELSE LET c == advance(cur, step, Len(cmds))
                      IN  [commands |-> Some(cmds), current |-> c,
                           ret |-> Returned(cmds[c + 1]), enumerated |-> stale]

\* the state a call starts from, kept for the two calls that follow; of the
\* older one only the call, the index and the element on display. The history
\* is kept for a Completer that is called directly, not inside the launcher.
Remember == [op |-> op, commands |-> commands, current |-> current,
             changed |-> changed, shown |-> shown, cycled |-> cycled]
Older(r) == [op |-> r.op, current |-> r.current, shown |-> r.shown]
Push ==
    IF pc # "idle" THEN <<>>
    ELSE IF back = <<>> THEN <<Remember>> ELSE <<Remember, Older(back[1])>>

Min(a, b) == IF a < b THEN a ELSE b

CallSetText(t) ==
    LET s == set_text(t)
    IN  /\ commands' = s.commands
        /\ current' = s.current
        /\ text' = s.text
        /\ op' = "set_text"
        /\ arg' = t
        /\ ret' = NoCall
        /\ enumerated' = FALSE
        /\ changed' = (t # text)
        /\ shown' = IF t # text THEN None ELSE shown
        /\ cycled' = IF t # text THEN FALSE ELSE cycled
        /\ nexts' = IF t # text THEN 0 ELSE -1
        /\ back' = Push
        /\ UNCHANGED <<pathShells, snapshot>>

CallCycle(name, step) ==
    LET s == _cycle(step)
    IN  /\ commands' = s.commands
        /\ current' = s.current
        /\ ret' = s.ret
        /\ enumerated' = s.enumerated
        /\ pathShells' = IF s.enumerated THEN pathShells \cup {SHELL} ELSE pathShells
        /\ op' = name
        /\ arg' = <<>>
        /\ changed' = FALSE
        /\ snapshot' = IF s.enumerated /\ ~s.ret.raised
                       THEN Some(get_commands(SHELL).value) ELSE snapshot
        /\ shown' = IF s.ret.raised THEN shown ELSE Some(s.ret.value)
        /\ cycled' = TRUE
        /\ nexts' = IF name = "next" /\ nexts >= 0
                    THEN Min(nexts + 1, MaxCalls + 1) ELSE -1
        /\ back' = Push
        /\ UNCHANGED text

\* the calls of a Completer on its own
SetText(t) == CallSetText(t) /\ UNCHANGED <<envVars, entries, SHELL, appVars>>
Next_ == CallCycle("next", 1) /\ UNCHANGED <<envVars, entries, SHELL, appVars>>
Prev == CallCycle("prev", -1) /\ UNCHANGED <<envVars, entries, SHELL, appVars>>

\* another process installs or removes a command in /bin
Install(n) ==
    /\ entries["/bin"][n] = "none"
    /\ entries' = [entries EXCEPT !["/bin"][n] = "exec"]
    /\ UNCHANGED <<envVars, SHELL, completerVars, callVars, appVars>>

Remove(n) ==
    /\ entries["/bin"][n] # "none"
    /\ entries' = [entries EXCEPT !["/bin"][n] = "none"]
    /\ UNCHANGED <<envVars, SHELL, completerVars, callVars, appVars>>

\* Completer.__init__
CompleterInit ==
    /\ commands = None
    /\ current = -1
    /\ text = <<>>

CallInit ==
    /\ op = "init"
    /\ arg = <<>>
    /\ ret = NoCall
    /\ enumerated = FALSE
    /\ pathShells = {}
    /\ changed = FALSE
    /\ snapshot = None
    /\ shown = None
    /\ cycled = FALSE
    /\ nexts = 0
    /\ back = <<>>

\* no launcher is running
AppIdle ==
    /\ pc = "idle"
    /\ args = [shell |-> None, gtk2 |-> FALSE]
    /\ frontend = "none"
    /\ entry = <<>>
    /\ status = None
    /\ submitted = <<>>
    /\ down = {}
    /\ event = [type |-> "none", key |-> "", mods |-> {}]
    /\ displayed = FALSE

NoEntries == [n \in Names |-> "none"]

\* a Completer under any sequence of calls: /bin is searched first and holds
\* any set of commands, ~/bin is missing or cannot be read
Init ==
    /\ environ = None
    /\ shellFile = [s \in Shells |-> TRUE]
    /\ echoPath = [s \in Shells |-> <<"/bin", "~/bin">>]
    /\ \E k \in {"missing", "noread"} :
         dirKind = [d \in DirNames |-> IF d = "/bin" THEN "dir"
                                       ELSE IF d = "/home/bin" THEN k ELSE "missing"]
    /\ \E S \in SUBSET Names :
         entries = [d \in DirNames |->
                      IF d = "/bin" THEN [n \in Names |-> IF n \in S THEN "exec" ELSE "none"]
                      ELSE NoEntries]
    /\ SHELL = DEFAULT_SHELL
    /\ CompleterInit
    /\ CallInit
    /\ AppIdle

Next ==
    \/ \E t \in Strings(MaxLen) : SetText(t)
    \/ Next_
    \/ Prev
    \/ \E n \in Names : Install(n)
    \/ \E n \in Names : Remove(n)

Spec == Init /\ [][Next]_vars

-----------------------------------------------------------------------------
(* get_commands on its own, for every search path and file system *)

Paths(n) == UNION {[1..k -> PathNames] : k \in 1..n}

EnumInit ==
    /\ environ = None
    /\ shellFile = [s \in Shells |-> TRUE]
    /\ \E p \in Paths(MaxPath) : echoPath = [s \in Shells |-> p]
    /\ \E k1, k2 \in DirKinds :
         /\ dirKind = [d \in DirNames |-> IF d = "/bin" THEN k1
                                          ELSE IF d = "/home/bin" THEN k2 ELSE "missing"]
         /\ \E e1 \in IF k1 = "dir" THEN [Names -> EntryKinds] ELSE {NoEntries} :
            \E e2 \in IF k2 = "dir" THEN [Names -> {"none", "exec", "plain"}]
                                     ELSE {NoEntries} :
              entries = [d \in DirNames |-> IF d = "/bin" THEN e1
                                            ELSE IF d = "/home/bin" THEN e2 ELSE NoEntries]
    /\ SHELL = DEFAULT_SHELL
    /\ CompleterInit
    /\ CallInit
    /\ AppIdle

Enumerate ==
    /\ op' = "get_commands"
    /\ ret' = get_commands(SHELL)
    /\ pathShells' = pathShells \cup {SHELL}
    /\ UNCHANGED <<envVars, entries, SHELL, completerVars, enumerated, arg, changed,
                   snapshot, shown, cycled, nexts, back, appVars>>

EnumNext == Enumerate

SpecEnum == EnumInit /\ [][EnumNext]_vars

\* the directories of the search path that exist and are directories
SearchedDirs == {d \in Range(get_path(SHELL)) : dirKind[d] \in {"dir", "noread"}}

\* C7: the result of get_commands is strictly ascending, hence sorted and free
\* of duplicates, and holds a name exactly when some existing directory of the
\* search path has a direct entry of that name that is not a directory and is
\* executable.
C7_EnumeratorResult ==
    (op = "get_commands" /\ ~ret.raised)
        => /\ \A i, j \in DOMAIN ret.value : i < j => StrLess(ret.value[i], ret.value[j])
           /\ \A n \in Names :
                 n \in Range(ret.value)
                    <=> \E d \in SearchedDirs : entries[d][n] \in {"exec"}

C7_Witness ==
    /\ op = "get_commands"
    /\ ret = Returned(<< <<"a">>, <<"a", "b">>, <<"b">> >>)
    /\ echoPath[SHELL] = <<"~/bin", "/bin">>
    /\ entries["/bin"][<<"a">>] = "exec" /\ entries["/home/bin"][<<"a">>] = "exec"
    /\ entries["/bin"][<<"b">>] = "dir" /\ entries["/bin"][<<"a", "b">>] = "exec"

\* the commands of the directories of the search path that can be listed
Remaining ==
    {n \in Names : \E d \in SearchedDirs : dirKind[d] = "dir" /\ entries[d][n] = "exec"}

\* C8: get_commands returns for every search path and file system, with the
\* commands of the directories that could be listed.
C8_NeverFails ==
    op = "get_commands" => (~ret.raised /\ Range(ret.value) = Remaining)

-----------------------------------------------------------------------------
(* main and the two front-ends *)

\* str.strip()
RECURSIVE lstrip(_)
lstrip(t) == IF t # <<>> /\ Head(t) = " " THEN lstrip(Tail(t)) ELSE t
RECURSIVE rstrip(_)
rstrip(t) == IF t # <<>> /\ t[Len(t)] = " " THEN rstrip(SubSeq(t, 1, Len(t) - 1)) ELSE t
strip(t) == rstrip(lstrip(t))

\* the keys and the modifier state an event carries (Mod2 is Num Lock)
Printable == {"a", "space"}
ModStates == SUBSET {"Shift", "Mod2"}
KeyEvents ==
    [key : Printable \cup {"Shift_L"}, mods : {{}, {"Mod2"}}]
        \cup [key : {"Tab", "BackSpace", "Delete"}, mods : ModStates]
        \cup [key : {"ISO_Left_Tab"}, mods : {{"Shift"}, {"Shift", "Mod2"}}]

\* event.char / the text the key inserts
keychar(k) == CASE k = "a" -> "a" [] k = "space" -> " " [] OTHER -> ""
\* Tk: event.char is '' for a key that produces no character
hasChar(k) == k \in Printable \cup {"Tab", "BackSpace", "Delete"}

\* what the entry widget's own key binding does to its text, the caret at the end
widgetKey(t, k) ==
    IF k \in Printable THEN t \o <<keychar(k)>>
    ELSE IF k = "BackSpace" /\ t # <<>> THEN SubSeq(t, 1, Len(t) - 1)
    ELSE t

\* the entry can take the key within the bound of the model
Fits(k) == k \in Printable => Len(entry) < MaxEntry

\* run_command(command)
run_command(command) == Append(submitted, [shell |-> SHELL, command |-> command])

NoCallStep == UNCHANGED <<completerVars, callVars>>

\* main() up to the event loop
\* os.path.isfile(shell) and os.access(shell, os.X_OK)
shellOkAlways(shell) == TRUE
shellOk(shell) == shellFile[shell]

Main ==
    /\ pc = "main"
    /\ LET shell == IF args.shell # None THEN Get(args.shell) ELSE SHELL
       IN  IF ~shellOk(shell)
           THEN /\ status' = Some(<<"Shell not found", shell>>)
                /\ pc' = "exit"
                /\ UNCHANGED frontend
           ELSE /\ frontend' = IF args.gtk2 THEN "gtk2" ELSE "tk"
                /\ pc' = "loop"
                /\ UNCHANGED status
    /\ NoCallStep
    /\ UNCHANGED <<envVars, entries, SHELL, args, entry, submitted, down, event, displayed>>

\* LauncherTk: the <Return> binding
TkReturn ==
    /\ pc = "loop" /\ frontend = "tk"
    /\ event' = [type |-> "press", key |-> "Return", mods |-> {}]
    /\ LET command == strip(entry)
       IN  IF command # <<>>
           THEN submitted' = run_command(command) /\ pc' = "exit"
           ELSE UNCHANGED <<submitted, pc>>
    /\ NoCallStep
    /\ UNCHANGED <<envVars, entries, SHELL, args, frontend, entry, status, down, displayed>>

\* LauncherTk: the <Escape> binding
TkEscape ==
    /\ pc = "loop" /\ frontend = "tk"
    /\ event' = [type |-> "press", key |-> "Escape", mods |-> {}]
    /\ pc' = "exit"
    /\ NoCallStep
    /\ UNCHANGED <<envVars, entries, SHELL, args, frontend, entry, status, submitted, down,
                   displayed>>

\* LauncherTk.handle_key, run after the Entry class binding
TkKey(e) ==
    /\ pc = "loop" /\ frontend = "tk"
    /\ Fits(e.key)
    /\ event' = [type |-> "press", key |-> e.key, mods |-> e.mods]
    /\ LET typed == widgetKey(entry, e.key)
       IN  IF e.key \in {"Tab", "ISO_Left_Tab"}
           THEN /\ IF e.mods = {"Shift"} THEN CallCycle("prev", -1)
                                           ELSE CallCycle("next", 1)
                /\ entry' = IF ret'.raised THEN entry ELSE ret'.value
                /\ displayed' = (displayed \/ ~ret'.raised)
           ELSE IF e.key = "BackSpace" /\ e.mods = {"Shift"}
           THEN /\ entry' = <<>>
                /\ CallSetText(<<>>)
                /\ displayed' = (displayed /\ entry' = entry)
           ELSE IF hasChar(e.key)
           THEN /\ entry' = typed
                /\ CallSetText(strip(typed))
                /\ displayed' = (displayed /\ entry' = entry)
           ELSE /\ entry' = typed
                /\ NoCallStep
                /\ displayed' = (displayed /\ entry' = entry)
    /\ UNCHANGED <<envVars, entries, SHELL, pc, args, frontend, status, submitted, down>>

\* LauncherGtk2.on_key_press_event, then the entry's own handler unless the
\* handler returned True
GtkPress(e) ==
    /\ pc = "loop" /\ frontend = "gtk2"
    /\ e.key \notin down
    /\ Cardinality(down) < MaxDown
    /\ Fits(e.key)
    /\ event' = [type |-> "press", key |-> e.key, mods |-> e.mods]
    /\ down' = down \cup {e.key}
    /\ IF e.key \in {"Tab", "ISO_Left_Tab"}
       THEN /\ IF "Shift" \in e.mods THEN CallCycle("prev", -1)
                                      ELSE CallCycle("next", 1)
            /\ entry' = IF ret'.raised THEN entry ELSE ret'.value
            /\ displayed' = (displayed \/ ~ret'.raised)
       ELSE IF e.key = "BackSpace" /\ "Shift" \in e.mods
       THEN /\ entry' = <<>>
            /\ CallSetText(<<>>)
            /\ displayed' = (displayed /\ entry' = entry)
       ELSE /\ entry' = widgetKey(entry, e.key)
            /\ NoCallStep
            /\ displayed' = (displayed /\ entry' = entry)
    /\ UNCHANGED <<envVars, entries, SHELL, pc, args, frontend, status, submitted>>

\* LauncherGtk2.on_key_press_event: Return
GtkReturn ==
    /\ pc = "loop" /\ frontend = "gtk2"
    /\ event' = [type |-> "press", key |-> "Return", mods |-> {}]
    /\ LET command == entry
       IN  IF command # <<>>
           THEN submitted' = run_command(command) /\ pc' = "exit"
           ELSE UNCHANGED <<submitted, pc>>
    /\ NoCallStep
    /\ UNCHANGED <<envVars, entries, SHELL, args, frontend, entry, status, down, displayed>>

\* LauncherGtk2.on_key_press_event: Escape
GtkEscape ==
    /\ pc = "loop" /\ frontend = "gtk2"
    /\ event' = [type |-> "press", key |-> "Escape", mods |-> {}]
    /\ pc' = "exit"
    /\ NoCallStep
    /\ UNCHANGED <<envVars, entries, SHELL, args, frontend, entry, status, submitted, down,
                   displayed>>

\* the test of on_key_release_event; keyval_name is one character long for
\* a letter and a word ("space", "Tab", "Shift_L") for the other keys
syncsOnAnyRelease(k) == TRUE
syncsOnRelease(k) == k \in {"a"} \/ k \in {"BackSpace", "Delete"}

\* LauncherGtk2.on_key_release_event
GtkRelease(k) ==
    /\ pc = "loop" /\ frontend = "gtk2"
    /\ k \in down
    /\ down' = down \ {k}
    /\ event' = [type |-> "release", key |-> k, mods |-> {}]
    /\ IF syncsOnRelease(k)
       THEN CallSetText(entry)
       ELSE NoCallStep
    /\ UNCHANGED <<envVars, entries, SHELL, pc, args, frontend, entry, status, submitted,
                   displayed>>

\* the launcher started with any command line and $SHELL; each shell reports
\* its own search path
AppInit ==
    /\ environ \in {None, Some("/bin/bash"), Some("/bin/nosh")}
    /\ shellFile = [s \in Shells |-> s # "/bin/nosh"]
    /\ echoPath = [s \in Shells |-> CASE s = "/bin/sh" -> <<"/bin">>
                                      [] s = "/bin/bash" -> <<"/bin", "~/bin">>
                                      [] OTHER -> <<"~/bin">>]
    /\ dirKind = [d \in DirNames |-> IF d = "" THEN "missing" ELSE "dir"]
    /\ entries = [d \in DirNames |->
                    IF d = "/bin" THEN [n \in Names |-> IF n = <<"b">> THEN "none" ELSE "exec"]
                    ELSE IF d = "/home/bin"
                    THEN [n \in Names |-> IF n = <<"b">> THEN "exec" ELSE "none"]
                    ELSE NoEntries]
    /\ SHELL = IF environ = None THEN DEFAULT_SHELL ELSE Get(environ)
    /\ CompleterInit
    /\ CallInit
    /\ pc = "main"
    /\ args \in [shell : {None, Some("/bin/zsh"), Some("/bin/nosh")}, gtk2 : BOOLEAN]
    /\ frontend = "none"
    /\ entry = <<>>
    /\ status = None
    /\ submitted = <<>>
    /\ down = {}
    /\ event = [type |-> "none", key |-> "", mods |-> {}]
    /\ displayed = FALSE

AppNext ==
    \/ Main
    \/ TkReturn
    \/ TkEscape
    \/ \E e \in KeyEvents : TkKey(e)
    \/ GtkReturn
    \/ GtkEscape
    \/ \E e \in KeyEvents : GtkPress(e)
    \/ \E k \in down : GtkRelease(k)

SpecApp == AppInit /\ [][AppNext]_vars

\* the shell the command line and the environment select
SelectedShell ==
    IF args.shell # None THEN Get(args.shell)
    ELSE IF environ # None THEN Get(environ) ELSE DEFAULT_SHELL

\* C9: every search-path query and every command execution invokes the
\* selected shell: the one of --shell if given, else $SHELL, else /bin/sh.
C9_SelectedShell ==
    /\ pathShells \subseteq {SelectedShell}
    /\ \A i \in DOMAIN submitted : submitted[i].shell = SelectedShell

\* a step that handles a press of shift-BackSpace
ClearKeyStep ==
    /\ pc = "loop"
    /\ event'.type = "press" /\ event'.key = "BackSpace" /\ "Shift" \in event'.mods

\* C10: shift-BackSpace empties the entry and calls set_text('') in both
\* front-ends and from any state; from then on a next() made while the prefix
\* is '' and nothing is cached enumerates and returns the first command of
\* the full sorted command set.
C10_Reset ==
    /\ [][ClearKeyStep =>
            /\ entry' = <<>>
            /\ op' = "set_text" /\ arg' = <<>>
            /\ text' = <<>>
            /\ text # <<>> => (commands' = None /\ current' = -1)]_vars
    /\ [][(pc = "loop" /\ text = <<>> /\ commands = None /\ ~cycled
                /\ cycled' /\ op' = "next" /\ ~ret'.raised)
            => /\ enumerated'
               /\ Get(snapshot') # <<>> =>
                     (ret'.value = Get(snapshot')[1] /\ entry' = ret'.value)]_vars

\* a step that handles a press of Enter
EnterStep ==
    /\ pc = "loop"
    /\ event'.type = "press" /\ event'.key = "Return"

\* C11: Enter on a line that is not empty after trimming submits the line
\* once and then ends the event loop; Enter on a line that is empty after
\* trimming submits nothing and the loop keeps running; no other event
\* submits a command.
C11_RunThenQuit ==
    /\ [][EnterStep =>
            IF strip(entry) # <<>>
            THEN /\ Len(submitted') = 1
                 /\ strip(submitted'[1].command) = strip(entry)
                 /\ pc' = "exit"
            ELSE /\ submitted' = submitted
                 /\ pc' = "loop"]_vars
    /\ [][submitted' # submitted => EnterStep]_vars
    /\ [](Len(submitted) <= 1 /\ (submitted # <<>> => pc = "exit"))

\* a step that handles a press of Tab or Shift-Tab
TabStep ==
    /\ pc = "loop"
    /\ event'.type = "press" /\ event'.key \in {"Tab", "ISO_Left_Tab"}

\* C12: whenever Tab or Shift-Tab asks for a completion while none is on
\* display, the stored prefix is the text typed into the entry.
C12_PrefixInSync ==
    [][(TabStep /\ ~displayed) => text = entry]_vars

\* a step that handles the press or the release of Tab, Shift-Tab or Shift
CycleKeyStep ==
    /\ pc = "loop"
    /\ event'.key \in {"Tab", "ISO_Left_Tab", "Shift_L"}

\* C13: the press and the release of Tab, Shift-Tab and Shift, and the
\* completion written into the entry, leave the stored prefix and a cached
\* match list as they are, and each press of Tab or Shift-Tab on a cached
\* list of n >= 1 matches moves the index one position (modulo n) and shows
\* the match at the new position.
C13_CycleUndisturbed ==
    [][CycleKeyStep =>
          /\ text' = text
          /\ commands # None => commands' = commands
          /\ (/\ TabStep
              /\ commands # None
              /\ Get(commands) # <<>>
              /\ current >= 0)
             => LET n == Len(Get(commands))
                IN  /\ current' \in {(current + 1) % n, (current - 1) % n}
                    /\ entry' = Get(commands)[current' + 1]]_vars

\* the second Tab in a row after "a" was typed has been released: the entry
\* shows the second match, the prefix is still the typed text
C13_Witness ==
    /\ pc = "loop" /\ frontend = "gtk2"
    /\ event.type = "release" /\ event.key = "Tab"
    /\ nexts = 2 /\ current = 1
    /\ text = <<"a">> /\ entry = <<"a", "b">>

-----------------------------------------------------------------------------
(* Properties of the Completer *)

IsCycle(o) == o \in {"next", "prev"}

\* the commands of the last snapshot that start with the stored prefix, ascending
Matches == sort({c \in Range(Get(snapshot)) : startswith(c, text)})

\* C1: the k-th next() in a row after the initial state or a prefix change
\* returns entry (k-1) mod n of the n >= 1 sorted commands that start with the
\* prefix, so the first next() returns the first match and the (n+1)-th
\* returns it again.
C1_ForwardCycle ==
    (op = "next" /\ nexts \in 1..MaxCalls /\ snapshot # None /\ Len(Matches) >= 1)
        => /\ ~ret.raised
           /\ ret.value = Matches[((nexts - 1) % Len(Matches)) + 1]

C1_Witness ==
    /\ op = "next" /\ snapshot # None
    /\ Len(Matches) = 3 /\ nexts = 4
    /\ ret.value = Matches[1]

\* C2: from an unset index and a match list of n >= 1 entries, next() returns
\* the entry at index 0 and prev() returns the entry at index n-1.
C2_FirstStep ==
    (IsCycle(op) /\ enumerated /\ ~ret.raised /\ Len(Matches) >= 1)
        => /\ op = "next" => ret.value = Matches[1]
           /\ op = "prev" => ret.value = Matches[Len(Matches)]

\* C3: while no enumerated command starts with the stored prefix, every
\* next() and prev() returns the stored prefix itself and does not raise.
C3_FallbackEcho ==
    (IsCycle(op) /\ snapshot # None /\ Len(Matches) = 0)
        => /\ ~ret.raised
           /\ ret.value = text

C3_Witness ==
    /\ op = "prev" /\ back[1].op = "next" /\ ~enumerated
    /\ snapshot # None /\ Get(snapshot) # <<>> /\ Len(Matches) = 0
    /\ text = <<"b">> /\ ret.value = <<"b">>

\* C4: set_text with the stored prefix changes none of the prefix, the cached
\* list and the index and enumerates nothing, so the following next()/prev()
\* takes the next step of the same cycle; set_text with another value stores
\* it, drops the cached list and unsets the index.
C4_SetText ==
    /\ (op = "set_text" /\ ~changed)
          => /\ text = arg
             /\ commands = back[1].commands
             /\ current = back[1].current
             /\ ~enumerated
    /\ (op = "set_text" /\ changed)
          => /\ text = arg
             /\ commands = None
             /\ current = -1
    /\ (IsCycle(op) /\ back[1].op = "set_text" /\ ~back[1].changed
            /\ back[1].commands # None /\ Get(back[1].commands) # <<>>)
          => /\ ~enumerated
             /\ commands = back[1].commands
             /\ current = (back[1].current + (IF op = "next" THEN 1 ELSE -1))
                              % Len(Get(commands))
             /\ ret = Returned(Get(commands)[current + 1])

C4_Witness ==
    /\ op = "next" /\ Len(back) = 2
    /\ back[1].op = "set_text" /\ ~back[1].changed
    /\ back[2].op = "next" /\ back[2].current = 1
    /\ current = 2

\* C5: get_commands is called by the first next()/prev() after the initial
\* state or after a set_text that changed the prefix, and by no other call.
C5_EnumerateOnce ==
    /\ op = "set_text" => ~enumerated
    /\ IsCycle(op) => (enumerated <=> ~back[1].cycled)

\* C6: once next()/prev() has returned an element e for the stored prefix,
\* prev() then next(), or next() then prev(), returns e from the second call
\* and leaves the index where it was before the pair.
C6_Inverse ==
    (Len(back) = 2 /\ {op, back[1].op} = {"next", "prev"} /\ back[2].shown # None)
        => /\ ~ret.raised
           /\ ret.value = Get(back[2].shown)
           /\ current = back[2].current

C6_Witness ==
    /\ Len(back) = 2 /\ op = "next" /\ back[1].op = "prev"
    /\ back[2].shown # None /\ back[2].current = 0
    /\ Len(Get(commands)) = 3 /\ current = 0

\* C14: a cached match list holds only commands that start with the stored
\* prefix, is strictly ascending (sorted, no duplicates) and is the filter by
\* the stored prefix of the snapshot taken when it was built, whatever the
\* file system holds now; the index is -1 or a position of the cached list.
C14_CacheCoherent ==
    /\ commands # None =>
          /\ snapshot # None
          /\ \A i \in 1..Len(Get(commands)) : startswith(Get(commands)[i], text)
          /\ \A i \in 1..(Len(Get(commands)) - 1) :
                StrLess(Get(commands)[i], Get(commands)[i + 1])
          /\ Get(commands) = matching(Get(snapshot), text)
    /\ \/ current = -1
       \/ /\ commands # None
          /\ 0 <= current /\ current < Len(Get(commands))

\* a list cached for the prefix "a" while the file system has moved on: the
\* index is on the second of two matches and one of them is gone from /bin
C14_Witness ==
    /\ commands # None /\ text = <<"a">>
    /\ Len(Get(commands)) = 2 /\ current = 1
    /\ Len(Get(snapshot)) = 3
    /\ ~get_commands(SHELL).raised
    /\ Get(commands) # matching(get_commands(SHELL).value, text)

\* C15: once main has made its check, a selected shell that is not an
\* executable regular file means main has returned 'Shell not found: <shell>'
\* with no window created, no search path asked for and no command run; a
\* window exists only for a shell that passed the check, and then no error
\* is returned.
C15_ShellCheck ==
    /\ (pc # "main" /\ ~shellFile[SelectedShell]) =>
          /\ pc = "exit"
          /\ status = Some(<<"Shell not found", SelectedShell>>)
          /\ frontend = "none"
          /\ pathShells = {}
          /\ submitted = <<>>
    /\ frontend # "none" =>
          /\ shellFile[SelectedShell]
          /\ status = None

\* main has returned the error for a shell named by --shell that does not exist
C15_Witness ==
    /\ pc = "exit"
    /\ args.shell = Some("/bin/nosh")
    /\ status = Some(<<"Shell not found", "/bin/nosh">>)
    /\ frontend = "none"

====
